---- MODULE Spec2Model ----
(***************************************************************************)
(* Corellian Spike Sabacc (src/src/sabacc_droid/corellian_spike.py).       *)
(*                                                                         *)
(* The game object (CorelliaGameView), its players' hands, the deck and    *)
(* the live turn / card-selection views are the state.  Every button       *)
(* handler and every view timeout is one action; a handler that raises     *)
(* keeps the assignments it made before the raise.                         *)
(***************************************************************************)
EXTENDS Integers, Sequences, FiniteSets, Bags, TLC

\* ------------------------------------------------------------------ bounds

\* Discord users that may press buttons.
NUsers == 3
\* Views (TurnView, CardSelectView) created in one run.
MaxViews == 3
\* The same, for the runs that start with a nearly empty deck.
MaxViewsExhaust == 4
\* A card button is pressed only among the first MaxPick buttons of a view.
MaxPick == 2
\* The same, in a run that starts late in a long game.
MaxPickLate == 3
\* Views created in a run that starts late in a long game.
MaxViewsPlayer == 4
\* Longest hand such a run starts with.
MaxHandPlayer == 3
\* Cards left in the deck when such a run starts.
MaxDeckPlayer == 1
\* Longest hand of small cards a solo run of the last turn starts with.
MaxHandSolo == 4
\* Longest hand of small cards a two-player run of the last turn starts with.
MaxHandPair == 3
\* Users around a crowded lobby, and those of them who have joined when a run starts.
LobbyUsers == 9
LobbySeated == 4

\* ------------------------------------------------------- program constants

\* generate_deck: range(1, 11)
MaxCardValue == 10
\* generate_deck: for _ in range(3)
CopiesPerValue == 3
\* play_game_button: len(self.players) >= 8
MaxPlayers == 8
\* create_buttons: len(self.children) >= 25
MaxButtons == 25
\* end_game: lando.draw_card twice
LandoCards == 2
\* stands for float('-inf') in evaluate_hand: below every -max, -sum, -len
NegInf == -1000
\* ids of synthesized AI players are above AIBase, users are 1..NUsers
AIBase == 100

Users == 1..NUsers

IsAI(p) == p > AIBase

\* ----------------------------------------------------------- pure helpers

RECURSIVE SeqSum(_)
SeqSum(s) == IF s = <<>> THEN 0 ELSE Head(s) + SeqSum(Tail(s))

Abs(x) == IF x < 0 THEN -x ELSE x

SetMin(S) == CHOOSE x \in S : \A y \in S : x <= y

SetMax(S) == CHOOSE x \in S : \A y \in S : x >= y

Range(s) == {s[i] : i \in DOMAIN s}

\* list.pop(i) with a 1-based position i
RemoveAt(s, i) == SubSeq(s, 1, i - 1) \o SubSeq(s, i + 1, Len(s))

\* list.remove(x): the first occurrence
RemoveFirst(s, x) ==
    LET i == SetMin({j \in DOMAIN s : s[j] = x}) IN RemoveAt(s, i)

IndexOf(s, x) == SetMin({j \in DOMAIN s : s[j] = x})

\* ------------------------------------------------------------------ deck

DeckSize == 2 * MaxCardValue * CopiesPerValue + 2

\* generate_deck with range(0, 10) for the negative cards: no -10, five zeros
DeckFromZero ==
    [i \in 1..DeckSize |->
        IF i <= MaxCardValue * CopiesPerValue
            THEN ((i - 1) \div CopiesPerValue) + 1
        ELSE IF i <= 2 * MaxCardValue * CopiesPerValue
            THEN -((i - 1 - MaxCardValue * CopiesPerValue) \div CopiesPerValue)
        ELSE 0]

\* generate_deck before random.shuffle: positives, negatives, two zeros
CanonicalDeck ==
    [i \in 1..DeckSize |->
        IF i <= MaxCardValue * CopiesPerValue
            THEN ((i - 1) \div CopiesPerValue) + 1
        ELSE IF i <= 2 * MaxCardValue * CopiesPerValue
            THEN -(((i - 1 - MaxCardValue * CopiesPerValue) \div CopiesPerValue) + 1)
        ELSE 0]

\* random.shuffle(deck): the outcomes explored are the permutations
\* i |-> (i * k) mod (DeckSize + 1), one for each key k coprime to DeckSize + 1
Shuffled(k) == [i \in 1..DeckSize |-> CanonicalDeck[(i * k) % (DeckSize + 1)]]

RECURSIVE GCD(_, _)
GCD(a, b) == IF b = 0 THEN a ELSE GCD(b, a % b)

\* every key of such a permutation
DeckKeys == {k \in 1..DeckSize : GCD(k, DeckSize + 1) = 1}

\* the keys of the shuffles a game run may draw
ShuffleKeys == {5}

\* the decks generate_deck may return when random.shuffle draws among keys
generate_deck(keys) == {Shuffled(k) : k \in keys}

\* random.shuffle(self.players): every ordering of the same players
Orderings(s) ==
    {t \in [DOMAIN s -> Range(s)] : \A x \in Range(s) : \E i \in DOMAIN t : t[i] = x}

\* -------------------------------------------------------- hand evaluation

Count(cards, v) == Cardinality({i \in DOMAIN cards : cards[i] = v})

\* the count of an absolute value with abs() forgotten: the cards equal to v
SignedCount(cards, v) == Cardinality({i \in DOMAIN cards : cards[i] = v})

AbsCount(cards, v) == Cardinality({i \in DOMAIN cards : Abs(cards[i]) = v})

\* the values of the cards with abs() forgotten
SignedValues(cards) == {cards[i] : i \in DOMAIN cards}

AbsValues(cards) == {Abs(cards[i]) : i \in DOMAIN cards}

\* the positive cards up to the first card that is not positive (a takewhile)
RECURSIVE LeadingPositiveCards(_)
LeadingPositiveCards(cards) ==
    IF cards = <<>> \/ Head(cards) <= 0 THEN <<>>
    ELSE <<Head(cards)>> \o LeadingPositiveCards(Tail(cards))

PositiveCards(cards) == SelectSeq(cards, LAMBDA c : c > 0)

\* the last tie-breaker with its minus sign forgotten
MaxPositiveUnnegated(cards) ==
    IF PositiveCards(cards) = <<>> THEN NegInf
    ELSE SetMax(Range(PositiveCards(cards)))

\* -max(positive_cards) if positive_cards else float('-inf')
NegMaxPositive(cards) ==
    IF PositiveCards(cards) = <<>> THEN NegInf
    ELSE -SetMax(Range(PositiveCards(cards)))

\* evaluate_hand raises ValueError (min of an empty sequence) on an empty hand
EvalRaises(cards) == cards = <<>>

\* evaluate_hand: (hand_rank, *tie_breakers), hand_type, total
evaluate_hand(cards) ==
    LET total == SeqSum(cards)
        zeros == Count(cards, 0)
        minAbs == SetMin(AbsValues(cards))
        tail == << -Len(cards), -SeqSum(PositiveCards(cards)), NegMaxPositive(cards) >>
    IN  IF total = 0 THEN
            IF zeros = 2 /\ Len(cards) = 2 THEN
                [key |-> <<1>>, type |-> "Pure Sabacc", total |-> total]
            ELSE IF /\ Len(cards) = 5
                    /\ Count(cards, -MaxCardValue) = 2
                    /\ Count(cards, 0) = 1
                    /\ Count(cards, MaxCardValue) = 2 THEN
                [key |-> <<2>>, type |-> "Full Sabacc", total |-> total]
            ELSE IF zeros = 1 /\ \E v \in AbsValues(cards) \ {0} : AbsCount(cards, v) >= 2 THEN
                [key |-> <<3, SetMin(AbsValues(cards) \ {0})>>,
                 type |-> "Yee-Haa", total |-> total]
            ELSE IF Cardinality({v \in AbsValues(cards) : AbsCount(cards, v) >= 2}) >= 2 THEN
                [key |-> <<4, minAbs>>, type |-> "Rule of Two", total |-> total]
            ELSE IF \E v \in Range(cards) :
                        v > 0 /\ Count(cards, v) >= 1 /\ Count(cards, -v) >= 1 THEN
                [key |-> <<5, minAbs>>, type |-> "Sabacc Pair", total |-> total]
            ELSE
                [key |-> <<6, minAbs>> \o tail, type |-> "Sabacc", total |-> total]
        ELSE
            [key |-> <<10, Abs(total), IF total > 0 THEN 0 ELSE 1>> \o tail,
             type |-> "Nulrhek", total |-> total]

\* the order of the keys with <= for <: equal keys are below one another
KeyNotGreater(a, b) ==
    \/ a = b
    \/ \E i \in 1..(Len(a) + 1) :
           /\ \A j \in 1..(i - 1) : j <= Len(b) /\ a[j] = b[j]
           /\ \/ i <= Len(a) /\ i <= Len(b) /\ a[i] < b[i]
              \/ i = Len(a) + 1 /\ Len(b) >= i

\* the order of the keys with the rank left out: the tie-breakers alone decide
KeyLessSkippingRank(a, b) ==
    \E i \in 2..(Len(a) + 1) :
        /\ \A j \in 2..(i - 1) : j <= Len(b) /\ a[j] = b[j]
        /\ \/ i <= Len(a) /\ i <= Len(b) /\ a[i] < b[i]
           \/ i = Len(a) + 1 /\ Len(b) >= i

\* Python's tuple order: the first differing element decides, a proper prefix is smaller
KeyLess(a, b) ==
    \E i \in 1..(Len(a) + 1) :
        /\ \A j \in 1..(i - 1) : j <= Len(b) /\ a[j] = b[j]
        /\ \/ i <= Len(a) /\ i <= Len(b) /\ a[i] < b[i]
           \/ i = Len(a) + 1 /\ Len(b) >= i

\* evaluated_hands left as the loop over the players built it
Unsorted(es) == es

\* list.sort(key=lambda x: x[0]): stable, ascending
RECURSIVE SortByKey(_)
SortByKey(es) ==
    IF es = <<>> THEN <<>>
    ELSE LET rest == SortByKey(Tail(es))
             e == Head(es)
             \* e goes before the first element of rest that is not smaller than it
             before == {i \in DOMAIN rest : \A j \in 1..i : KeyLess(rest[j].key, e.key)}
             n == Cardinality(before)
         IN  SubSeq(rest, 1, n) \o <<e>> \o SubSeq(rest, n + 1, Len(rest))

\* ----------------------------------------------------------------- state

VARIABLES
    players,               \* self.players: the Player objects, by id, in list order
    cards,                 \* Player.cards of every Player object, by id
    game_started,          \* self.game_started
    current_player_index,  \* self.current_player_index
    deck,                  \* self.deck; pop() takes the last element
    rounds,                \* self.rounds (constructor argument)
    num_cards,             \* self.num_cards (constructor argument)
    total_rounds,          \* self.total_rounds (0 until start sets it)
    rounds_completed,      \* self.rounds_completed (0 until start sets it)
    first_turn,            \* self.first_turn
    solo_game,             \* self.solo_game
    current_message,       \* self.current_message: 0 is None, k the k-th turn message
    views,                 \* the TurnViews and CardSelectViews that are not stopped
    nviews,                \* views created so far
    viewsLeft,             \* views that may still be created (the bound of the run)
    rng,                   \* the shuffle keys random.shuffle(deck) may draw in this run
    picks,                 \* the card buttons a run presses: the first picks of a view
    returned,              \* history: what the last direct call of a Player method returned
    evaluated,             \* history: the last direct call of evaluate_hand and its result
    raised,                \* history: some handler raised an exception
    discarded,             \* history: the bag of the cards popped from hands
    showdowns,             \* history: showdowns computed by end_game
    end_calls,             \* history: calls of end_game
    turn_player,           \* history: the player the last turn message names (0: none)
    result,                \* history: what the last showdown reported
    advances,              \* history: proceed_to_next_player/end_game calls made by turns
    turnsDone,             \* history: the advances made up to the first showdown
    doubled,               \* history: some turn was advanced more than once
    roundTurns,            \* history: the turns each user ended in the running round
    junked,                \* history: the users whose Junk removed them
    startN                 \* history: len(self.players) when the game started

gameVars == <<players, cards, deck, current_player_index, rounds_completed, total_rounds,
              first_turn, current_message, solo_game, showdowns, result, end_calls,
              turn_player, discarded, raised>>

histVars == <<advances, turnsDone, doubled, roundTurns>>

\* what the constructor and the bounds of the run fix
runVars == <<rounds, num_cards, rng, picks>>

\* what the direct calls of the methods leave behind
callVars == <<returned, evaluated>>

vars == <<players, cards, game_started, current_player_index, deck, rounds, num_cards, rng, picks,
          total_rounds, rounds_completed, first_turn, solo_game, current_message, views,
          nviews, viewsLeft, showdowns, result, end_calls, turn_player, advances,
          turnsDone, doubled, roundTurns, junked, startN, returned, evaluated, discarded,
          raised>>

\* The fields of the game object that the turn handlers pass along.
G ==
    [players |-> players, cards |-> cards, deck |-> deck, idx |-> current_player_index,
     rc |-> rounds_completed, total |-> total_rounds, first_turn |-> first_turn,
     msg |-> current_message, solo |-> solo_game, showdowns |-> showdowns,
     result |-> result, turn_player |-> turn_player, raised |-> FALSE, ended |-> FALSE,
     discarded |-> discarded]

SetG(g) ==
    /\ players' = g.players
    /\ cards' = g.cards
    /\ deck' = g.deck
    /\ current_player_index' = g.idx
    /\ rounds_completed' = g.rc
    /\ total_rounds' = g.total
    /\ first_turn' = g.first_turn
    /\ current_message' = g.msg
    /\ solo_game' = g.solo
    /\ showdowns' = g.showdowns
    /\ result' = g.result
    /\ turn_player' = g.turn_player
    /\ end_calls' = IF g.ended THEN end_calls + 1 ELSE end_calls
    /\ discarded' = g.discarded
    /\ raised' = (raised \/ g.raised)

NoResult == [ranked |-> <<>>, winners |-> {}, nobody |-> FALSE]

\* no direct call of evaluate_hand yet
NoEval == [player |-> 0, cards |-> <<>>, key |-> <<>>, type |-> "none", total |-> 0]

\* what end_game reports: the hands in ranking order, the winners, "Nobody won"
Showdown(ranked, winners, nobody) ==
    [ranked |-> ranked, winners |-> winners, nobody |-> nobody]

\* ------------------------------------------------------------ Player

\* a draw that reads the top card with deck[-1] and leaves it on the deck
draw_card_peeking(g, p) ==
    [g EXCEPT !.cards[p] = Append(@, g.deck[Len(g.deck)])]

\* Player.draw_card on a non-empty deck: deck.pop(), cards.append
draw_card(g, p) ==
    [g EXCEPT !.cards[p] = Append(@, g.deck[Len(g.deck)]),
              !.deck = SubSeq(g.deck, 1, Len(g.deck) - 1)]

\* Player.discard_card(card): the hand after the call and what the call returns
discard_card(hand, card) ==
    IF Len(hand) <= 1 THEN [cards |-> hand, ok |-> FALSE]
    ELSE IF card \in Range(hand) THEN [cards |-> RemoveFirst(hand, card), ok |-> TRUE]
    ELSE [cards |-> hand, ok |-> FALSE]

\* Player.replace_card(card, deck): the hand and the deck after the call, and what
\* the call returns
replace_card(hand, card, dk) ==
    IF card \in Range(hand) /\ dk # <<>>
    THEN [cards |-> Append(RemoveFirst(hand, card), dk[Len(dk)]),
          deck |-> SubSeq(dk, 1, Len(dk) - 1), ok |-> TRUE]
    ELSE [cards |-> hand, deck |-> dk, ok |-> FALSE]

\* ------------------------------------------------------------ CorelliaGameView

\* end_game: Lando joins a solo game, then the hands are ranked
end_game(g) ==
    LET lando == AIBase + Cardinality({p \in DOMAIN g.cards : IsAI(p)}) + 1
        n == Len(g.deck)
        g0 == [g EXCEPT !.ended = TRUE]
        g1 == IF ~g.solo THEN g0
              ELSE IF n >= LandoCards THEN
                  [g0 EXCEPT !.deck = SubSeq(g.deck, 1, n - LandoCards),
                             !.cards = g.cards @@
                                 (lando :> [i \in 1..LandoCards |-> g.deck[n - i + 1]]),
                             !.players = Append(g.players, lando)]
              ELSE IF n = 0 THEN [g0 EXCEPT !.raised = TRUE]
              ELSE \* Lando draws what is left, then draw_card raises
                   [g0 EXCEPT !.deck = <<>>, !.raised = TRUE,
                              !.cards = g.cards @@ (lando :> [i \in 1..n |-> g.deck[n - i + 1]])]
    IN  IF g1.raised THEN g1
        ELSE IF g1.players = <<>> THEN
            [g1 EXCEPT !.showdowns = @ + 1,
                       !.result = Showdown(<<>>, {}, TRUE)]
        ELSE IF \E i \in DOMAIN g1.players : EvalRaises(g1.cards[g1.players[i]]) THEN
            [g1 EXCEPT !.raised = TRUE]
        ELSE
            LET evaluated_hands ==
                    [i \in DOMAIN g1.players |->
                        [key |-> evaluate_hand(g1.cards[g1.players[i]]).key,
                         player |-> g1.players[i]]]
                sorted == SortByKey(evaluated_hands)
                best_hand_value == sorted[1].key
                winners == {sorted[i].player : i \in {j \in DOMAIN sorted :
                                                        sorted[j].key = best_hand_value}}
            IN  [g1 EXCEPT !.showdowns = @ + 1,
                           !.result = Showdown([i \in DOMAIN sorted |-> sorted[i].player],
                                               winners, FALSE)]

\* proceed_to_next_player with the first_turn test forgotten: the call that starts
\* the first turn counts a round too
proceed_counting_first_turn(g) ==
    IF g.players = <<>> THEN [g EXCEPT !.raised = TRUE]
    ELSE LET idx == (g.idx + 1) % Len(g.players)
             wrap == idx = 0
             g1 == [g EXCEPT !.idx = idx, !.rc = IF wrap THEN @ + 1 ELSE @]
         IN  IF wrap /\ g1.rc > g1.total THEN end_game(g1)
             ELSE [g1 EXCEPT !.msg = @ + 1, !.turn_player = g1.players[idx + 1],
                             !.first_turn = FALSE]

\* proceed_to_next_player ending the game one round early: >= for >
proceed_ending_at_total(g) ==
    IF g.players = <<>> THEN [g EXCEPT !.raised = TRUE]
    ELSE LET idx == (g.idx + 1) % Len(g.players)
             wrap == idx = 0 /\ ~g.first_turn
             g1 == [g EXCEPT !.idx = idx, !.rc = IF wrap THEN @ + 1 ELSE @]
         IN  IF wrap /\ g1.rc >= g1.total THEN end_game(g1)
             ELSE [g1 EXCEPT !.msg = @ + 1, !.turn_player = g1.players[idx + 1],
                             !.first_turn = FALSE]

\* proceed_to_next_player, update_game_embed included
proceed_to_next_player(g) ==
    IF g.players = <<>> THEN [g EXCEPT !.raised = TRUE]
    ELSE LET idx == (g.idx + 1) % Len(g.players)
             wrap == idx = 0 /\ ~g.first_turn
             g1 == [g EXCEPT !.idx = idx, !.rc = IF wrap THEN @ + 1 ELSE @]
         IN  IF wrap /\ g1.rc > g1.total THEN end_game(g1)
             ELSE [g1 EXCEPT !.msg = @ + 1, !.turn_player = g1.players[idx + 1],
                             !.first_turn = FALSE]

\* ------------------------------------------------------------ history

\* the user is the player at the current turn index
IsCurrent(u) ==
    /\ current_player_index >= 0
    /\ current_player_index < Len(players)
    /\ players[current_player_index + 1] = u

\* the view belongs to the turn that is running and to the player whose turn it is
InTurn(v) == IsCurrent(v.player) /\ v.turn = advances

\* no user has ended a turn
NoTurns == [u \in Users |-> 0]

\* a turn handler called proceed_to_next_player or end_game through view v; the turns
\* of a round are counted up to two a user, from the advance after the one that
\* incremented rounds_completed
Advanced(v) ==
    /\ advances' = advances + 1
    /\ turnsDone' = IF showdowns = 0 THEN turnsDone + 1 ELSE turnsDone
    /\ doubled' = (doubled \/ v.turn # advances)
    /\ roundTurns' =
           LET base == IF roundTurns.closed THEN NoTurns ELSE roundTurns.turns
               n == base[v.player]
           IN  [closed |-> rounds_completed' # rounds_completed,
                turns |-> [base EXCEPT ![v.player] = IF n < 2 THEN n + 1 ELSE n]]

Without(ids) == {w \in views : w.id \notin ids}

\* ------------------------------------------------------------ lobby

\* the configurations CorelliaGameView is constructed with: (rounds, num_cards)
Configs == {<<1, 2>>, <<2, 2>>}

\* a configuration that deals almost the whole deck to NUsers players
ConfigsExhaust == {<<1, (DeckSize - 2) \div NUsers>>}

InitWith(configs, budget, keys, npick) ==
    /\ players = <<>>
    /\ cards = [u \in Users |-> <<>>]
    /\ game_started = FALSE
    /\ current_player_index = -1
    /\ deck = <<>>
    /\ \E c \in configs : rounds = c[1] /\ num_cards = c[2]
    /\ total_rounds = 0
    /\ rounds_completed = 0
    /\ first_turn = TRUE
    /\ solo_game = FALSE
    /\ current_message = 0
    /\ views = {}
    /\ nviews = 0
    /\ viewsLeft = budget
    /\ rng = keys
    /\ picks = npick
    /\ showdowns = 0
    /\ result = NoResult
    /\ end_calls = 0
    /\ turn_player = 0
    /\ returned = "none"
    /\ evaluated = NoEval
    /\ discarded = EmptyBag
    /\ raised = FALSE
    /\ advances = 0
    /\ turnsDone = 0
    /\ doubled = FALSE
    /\ roundTurns = [closed |-> FALSE, turns |-> NoTurns]
    /\ junked = {}
    /\ startN = 0

Init == InitWith(Configs, MaxViews, ShuffleKeys, MaxPick)

InitExhaust == InitWith(ConfigsExhaust, MaxViewsExhaust, ShuffleKeys \cup {DeckSize}, MaxPick)

InitOneRound == InitWith({<<1, 2>>}, MaxViews, ShuffleKeys, MaxPick)

\* a lobby whose start may shuffle the deck with any of the keys
InitDeck == InitWith(Configs, 0, DeckKeys, MaxPick)

\* A lobby that users 1..LobbySeated have joined, in that order.
InitCrowd ==
    /\ players = [i \in 1..LobbySeated |-> i]
    /\ cards = [u \in 1..LobbyUsers |-> <<>>]
    /\ game_started = FALSE
    /\ current_player_index = -1
    /\ deck = <<>>
    /\ \E c \in Configs : rounds = c[1] /\ num_cards = c[2]
    /\ total_rounds = 0
    /\ rounds_completed = 0
    /\ first_turn = TRUE
    /\ solo_game = FALSE
    /\ current_message = 0
    /\ views = {}
    /\ nviews = 0
    /\ viewsLeft = 0
    /\ rng = ShuffleKeys
    /\ picks = MaxPick
    /\ showdowns = 0
    /\ result = NoResult
    /\ end_calls = 0
    /\ turn_player = 0
    /\ returned = "none"
    /\ evaluated = NoEval
    /\ discarded = EmptyBag
    /\ raised = FALSE
    /\ advances = 0
    /\ turnsDone = 0
    /\ doubled = FALSE
    /\ roundTurns = [closed |-> FALSE, turns |-> NoTurns]
    /\ junked = {}
    /\ startN = 0

\* play_game_button with > for >=: a ninth player gets in
JoinOverCap(u) ==
    /\ IF ~game_started /\ u \notin Range(players) /\ Len(players) <= MaxPlayers
          THEN players' = Append(players, u)
          ELSE players' = players
    /\ UNCHANGED <<cards, game_started, current_player_index, deck, runVars, callVars,
                   total_rounds, rounds_completed, first_turn, solo_game, current_message,
                   views, nviews, viewsLeft, showdowns, result, end_calls, turn_player,
                   histVars, junked, startN, discarded, raised>>

\* play_game_button
Join(u) ==
    /\ IF ~game_started /\ u \notin Range(players) /\ Len(players) < MaxPlayers
          THEN players' = Append(players, u)
          ELSE players' = players
    /\ UNCHANGED <<cards, game_started, current_player_index, deck, runVars, callVars,
                   total_rounds, rounds_completed, first_turn, solo_game, current_message,
                   views, nviews, viewsLeft, showdowns, result, end_calls, turn_player,
                   histVars, junked, startN, discarded, raised>>

\* leave_game_button with the game_started test forgotten
LeaveAnytime(u) ==
    /\ IF u \in Range(players)
          THEN /\ players' = RemoveFirst(players, u)
               /\ current_player_index' = IF Len(players) = 1 THEN -1
                                          ELSE current_player_index
          ELSE /\ UNCHANGED <<players, current_player_index>>
    /\ UNCHANGED <<cards, game_started, deck, runVars, callVars, total_rounds,
                   rounds_completed, first_turn, solo_game, current_message, views,
                   nviews, viewsLeft, showdowns, result, end_calls, turn_player, histVars,
                   junked, startN, discarded, raised>>

\* leave_game_button (an emptied lobby is reset by update_lobby_embed)
Leave(u) ==
    /\ IF ~game_started /\ u \in Range(players)
          THEN /\ players' = RemoveFirst(players, u)
               /\ current_player_index' = IF Len(players) = 1 THEN -1
                                          ELSE current_player_index
          ELSE /\ UNCHANGED <<players, current_player_index>>
    /\ UNCHANGED <<cards, game_started, deck, runVars, callVars, total_rounds,
                   rounds_completed, first_turn, solo_game, current_message, views,
                   nviews, viewsLeft, showdowns, result, end_calls, turn_player, histVars,
                   junked, startN, discarded, raised>>

\* a deal that stops one card early
DealtShort(dk, j, nc) ==
    [i \in 1..(nc - 1) |-> dk[Len(dk) - ((j - 1) * nc + i) + 1]]

\* the deal of start_game_button: the j-th player takes num_cards cards off the end
\* of the deck, as long as there are cards
Dealt(dk, j, nc) ==
    LET have == Len(dk) - (j - 1) * nc
        k == IF have < 0 THEN 0 ELSE IF have < nc THEN have ELSE nc
    IN  [i \in 1..k |-> dk[Len(dk) - ((j - 1) * nc + i) + 1]]

\* start_game_button
Start(u) ==
    IF game_started \/ u \notin Range(players)
    THEN UNCHANGED vars
    ELSE \E dk \in generate_deck(rng), order \in Orderings(players) :
         LET n == Len(order)
             short == n * num_cards > Len(dk)
             dealt == [p \in DOMAIN cards |->
                          IF p \in Range(order) THEN Dealt(dk, IndexOf(order, p), num_cards)
                          ELSE cards[p]]
             left == IF short THEN <<>> ELSE SubSeq(dk, 1, Len(dk) - n * num_cards)
             g0 == [G EXCEPT !.players = order, !.cards = dealt, !.deck = left]
             g1 == IF short THEN [g0 EXCEPT !.raised = TRUE]
                   ELSE proceed_to_next_player(
                            [g0 EXCEPT !.total = rounds, !.rc = 1, !.first_turn = TRUE])
             g2 == IF g1.raised THEN g1 ELSE [g1 EXCEPT !.solo = (Len(g1.players) = 1)]
         IN  /\ game_started' = TRUE
             /\ SetG(g2)
             /\ startN' = n
             /\ UNCHANGED <<runVars, callVars, views, nviews, viewsLeft, histVars, junked>>

\* ------------------------------------------------------------ turns

TurnViewOf(id, p) ==
    [id |-> id, kind |-> "turn", player |-> p, tv |-> id, buttons |-> <<>>,
     turn |-> advances, shown |-> TRUE]

\* PlayTurnButton.callback
PlayTurn(u) ==
    /\ current_message > 0
    /\ IF current_player_index >= Len(players) \/ IsAI(players[current_player_index + 1])
          THEN \* players[current_player_index] raises IndexError; the AI's user has no id
               /\ raised' = TRUE
               /\ UNCHANGED <<nviews, viewsLeft, views>>
          ELSE /\ raised' = raised
               /\ IF IsCurrent(u)
                     THEN /\ viewsLeft > 0
                          /\ viewsLeft' = viewsLeft - 1
                          /\ nviews' = nviews + 1
                          /\ views' = views \cup {TurnViewOf(nviews + 1, u)}
                     ELSE UNCHANGED <<nviews, viewsLeft, views>>
    /\ UNCHANGED <<players, cards, deck, current_player_index, rounds_completed, total_rounds,
                   first_turn, current_message, solo_game, showdowns, result, end_calls,
                   turn_player, discarded, game_started, runVars, callVars, histVars, junked,
                   startN>>

\* a button of a view pressed by somebody else: interaction_check refuses
Unauthorized(v, u) ==
    /\ u # v.player
    /\ v.kind # "turn" \/ v.shown
    /\ UNCHANGED vars

\* TurnView.draw_card_button
Draw(v) ==
    /\ v.kind = "turn" /\ v.shown
    /\ IF deck = <<>>
          THEN UNCHANGED <<gameVars, views, histVars>>
          ELSE LET g == proceed_to_next_player(draw_card(G, v.player))
               IN  /\ SetG(g)
                   /\ views' = Without({v.id})
                   /\ Advanced(v)
    /\ UNCHANGED <<game_started, runVars, callVars, nviews, viewsLeft, junked, startN>>

\* a stand that takes a card off the deck before it passes the turn on
StandDrawing(v) ==
    /\ v.kind = "turn" /\ v.shown
    /\ LET g == proceed_to_next_player(IF deck = <<>> THEN G ELSE draw_card(G, v.player))
       IN  /\ SetG(g)
    /\ views' = Without({v.id})
    /\ Advanced(v)
    /\ UNCHANGED <<game_started, runVars, callVars, nviews, viewsLeft, junked, startN>>

\* TurnView.stand_button
Stand(v) ==
    /\ v.kind = "turn" /\ v.shown
    /\ LET g == proceed_to_next_player(G)
       IN  /\ SetG(g)
    /\ views' = Without({v.id})
    /\ Advanced(v)
    /\ UNCHANGED <<game_started, runVars, callVars, nviews, viewsLeft, junked, startN>>

\* the test of junk_button with the wrong threshold: one player left plays on
NoPlayerLeft(g) == g.players = <<>>

\* junk_button: "Check if the game needs to end"
TooFewPlayers(g) == Len(g.players) < 2

\* TurnView.junk_button
Junk(v) ==
    /\ v.kind = "turn" /\ v.shown
    /\ IF v.player \notin Range(players)
          THEN \* players.remove raises after the message lost its buttons
               /\ views' = Without({v.id}) \cup {[v EXCEPT !.shown = FALSE]}
               /\ SetG([G EXCEPT !.raised = TRUE])
               /\ UNCHANGED <<histVars, junked>>
          ELSE LET g1 == [G EXCEPT !.players = RemoveFirst(players, v.player)]
                   g == IF TooFewPlayers(g1) THEN end_game(g1)
                        ELSE proceed_to_next_player(g1)
               IN  /\ SetG(g)
                   /\ views' = Without({v.id})
                   /\ Advanced(v)
                   /\ junked' = junked \cup {v.player}
    /\ UNCHANGED <<game_started, runVars, callVars, nviews, viewsLeft, startN>>

\* TurnView.on_timeout
TurnTimeout(v) ==
    /\ v.kind = "turn"
    /\ SetG(proceed_to_next_player(G))
    /\ views' = Without({v.id})
    /\ Advanced(v)
    /\ UNCHANGED <<game_started, runVars, callVars, nviews, viewsLeft, junked, startN>>

\* ------------------------------------------------------------ card selection

\* CardSelectView.__init__ / create_buttons: one button per card, value and position
CardSelectViewOf(id, v, action) ==
    LET hand == cards[v.player]
        k == IF Len(hand) < MaxButtons THEN Len(hand) ELSE MaxButtons
    IN  [id |-> id, kind |-> action, player |-> v.player, tv |-> v.id,
         buttons |-> SubSeq(hand, 1, k), turn |-> v.turn, shown |-> TRUE]

\* the message of turn view v now shows the card selection
OpenSelect(v, action) ==
    /\ viewsLeft > 0
    /\ viewsLeft' = viewsLeft - 1
    /\ nviews' = nviews + 1
    /\ views' = Without({v.id})
                  \cup {[v EXCEPT !.shown = FALSE], CardSelectViewOf(nviews + 1, v, action)}

\* TurnView.discard_card_button
OpenDiscard(v) ==
    /\ v.kind = "turn" /\ v.shown
    /\ IF Len(cards[v.player]) <= 1
          THEN UNCHANGED <<views, nviews, viewsLeft>>
          ELSE OpenSelect(v, "discard")
    /\ UNCHANGED <<gameVars, game_started, runVars, callVars, histVars, junked, startN>>

\* TurnView.replace_card_button
OpenReplace(v) ==
    /\ v.kind = "turn" /\ v.shown
    /\ OpenSelect(v, "replace")
    /\ UNCHANGED <<gameVars, game_started, runVars, callVars, histVars, junked, startN>>

\* CardSelectView.make_callback, action 'discard', the button of position i
PressDiscard(v, i) ==
    /\ v.kind = "discard"
    /\ i \in 1..Len(v.buttons) /\ i <= picks
    /\ IF Len(cards[v.player]) <= 1
          THEN \* refused
               /\ UNCHANGED <<gameVars, views, histVars>>
          ELSE IF i > Len(cards[v.player])
          THEN \* pop(card_index) raises IndexError
               /\ SetG([G EXCEPT !.raised = TRUE])
               /\ UNCHANGED <<views, histVars>>
          ELSE LET g == proceed_to_next_player(
                            [G EXCEPT !.cards[v.player] = RemoveAt(@, i),
                                      !.discarded = @ (+) SetToBag({cards[v.player][i]})])
               IN  /\ SetG(g)
                   /\ views' = Without({v.id, v.tv})
                   /\ Advanced(v)
    /\ UNCHANGED <<game_started, runVars, callVars, nviews, viewsLeft, junked, startN>>

\* CardSelectView.make_callback, action 'replace', the button of position i
PressReplace(v, i) ==
    /\ v.kind = "replace"
    /\ i \in 1..Len(v.buttons) /\ i <= picks
    /\ IF i > Len(cards[v.player])
          THEN \* pop(card_index) raises IndexError
               /\ SetG([G EXCEPT !.raised = TRUE])
               /\ UNCHANGED <<views, histVars>>
          ELSE IF deck = <<>>
          THEN \* the card is popped, then draw_card raises ValueError
               /\ SetG([G EXCEPT !.raised = TRUE,
                                 !.cards[v.player] = RemoveAt(@, i),
                                 !.discarded = @ (+) SetToBag({cards[v.player][i]})])
               /\ UNCHANGED <<views, histVars>>
          ELSE LET g == proceed_to_next_player(
                            draw_card([G EXCEPT !.cards[v.player] = RemoveAt(@, i),
                                                !.discarded = @ (+) SetToBag({cards[v.player][i]})],
                                      v.player))
               IN  /\ SetG(g)
                   /\ views' = Without({v.id, v.tv})
                   /\ Advanced(v)
    /\ UNCHANGED <<game_started, runVars, callVars, nviews, viewsLeft, junked, startN>>

\* GoBackButton.callback: the message shows the turn view again
GoBack(v) ==
    /\ v.kind # "turn"
    /\ views' = {IF w.id = v.tv THEN [w EXCEPT !.shown = TRUE] ELSE w : w \in Without({v.id})}
    /\ UNCHANGED <<gameVars, game_started, runVars, callVars, nviews, viewsLeft, histVars,
                   junked, startN>>

\* CardSelectView.on_timeout
SelectTimeout(v) ==
    /\ v.kind # "turn"
    /\ SetG(proceed_to_next_player(G))
    /\ views' = Without({v.id, v.tv})
    /\ Advanced(v)
    /\ UNCHANGED <<game_started, runVars, callVars, nviews, viewsLeft, junked, startN>>

\* ------------------------------------------------------------ direct calls

\* the values a card can have
CardValues == (-MaxCardValue)..MaxCardValue

\* the cards of a list, as a bag
SeqToBag(s) == [c \in Range(s) |-> Count(s, c)]

\* a caller outside the views calls player.draw_card(game.deck)
CallDraw(p) ==
    /\ p \in Range(players)
    /\ IF deck = <<>>
          THEN /\ returned' = "ValueError"
               /\ UNCHANGED <<cards, deck>>
          ELSE /\ returned' = "None"
               /\ cards' = draw_card(G, p).cards
               /\ deck' = draw_card(G, p).deck
    /\ UNCHANGED <<players, game_started, current_player_index, runVars,
                   total_rounds, rounds_completed, first_turn, solo_game, current_message,
                   views, nviews, viewsLeft, showdowns, result, end_calls, turn_player,
                   histVars, junked, startN, evaluated, discarded, raised>>

\* a caller outside the views calls player.discard_card(card)
CallDiscard(p, card) ==
    /\ p \in Range(players)
    /\ LET r == discard_card(cards[p], card)
       IN  /\ cards' = [cards EXCEPT ![p] = r.cards]
           /\ returned' = IF r.ok THEN "True" ELSE "False"
           /\ discarded' = IF r.ok THEN discarded (+) SetToBag({card}) ELSE discarded
    /\ UNCHANGED <<players, game_started, current_player_index, deck, runVars,
                   total_rounds, rounds_completed, first_turn, solo_game, current_message,
                   views, nviews, viewsLeft, showdowns, result, end_calls, turn_player,
                   histVars, junked, startN, evaluated, raised>>

\* a caller outside the views calls player.replace_card(card, game.deck)
CallReplace(p, card) ==
    /\ p \in Range(players)
    /\ LET r == replace_card(cards[p], card, deck)
       IN  /\ cards' = [cards EXCEPT ![p] = r.cards]
           /\ deck' = r.deck
           /\ returned' = IF r.ok THEN "True" ELSE "False"
           /\ discarded' = IF r.ok THEN discarded (+) SetToBag({card}) ELSE discarded
    /\ UNCHANGED <<players, game_started, current_player_index, runVars,
                   total_rounds, rounds_completed, first_turn, solo_game, current_message,
                   views, nviews, viewsLeft, showdowns, result, end_calls, turn_player,
                   histVars, junked, startN, evaluated, raised>>

\* a caller outside the views calls game.evaluate_hand(player)
CallEvaluate(p) ==
    /\ p \in Range(players)
    /\ evaluated' =
           IF EvalRaises(cards[p])
           THEN [player |-> p, cards |-> cards[p], key |-> <<>>, type |-> "ValueError",
                 total |-> 0]
           ELSE [player |-> p, cards |-> cards[p], key |-> evaluate_hand(cards[p]).key,
                 type |-> evaluate_hand(cards[p]).type,
                 total |-> evaluate_hand(cards[p]).total]
    /\ UNCHANGED <<gameVars, game_started, runVars, returned, views, nviews, viewsLeft,
                   histVars, junked, startN>>

\* the lists f[p], p in S, one after the other
RECURSIVE Concat(_, _)
Concat(f, S) ==
    IF S = {} THEN <<>>
    ELSE LET p == CHOOSE x \in S : TRUE IN f[p] \o Concat(f, S \ {p})

\* every card a player (or the AI) holds
Held == Concat(cards, DOMAIN cards)

\* the lists of length lo..hi over the values vs
Lists(vs, lo, hi) == UNION {[1..n -> vs] : n \in lo..hi}

\* the card values of the hands and decks a run of direct calls starts with
PlayerValues == {-1, 1}

\* the bag of the 62 cards
CanonicalBag == SeqToBag(CanonicalDeck)

\* A long solo game near the end of its deck: the player holds hand, the deck holds
\* dk, every other card was discarded or replaced away in the turns played so far.
InitPlayer ==
    \E hand \in Lists(PlayerValues, 1, MaxHandPlayer),
       dk \in Lists(PlayerValues, 0, MaxDeckPlayer) :
        /\ (SeqToBag(hand) (+) SeqToBag(dk)) \sqsubseteq CanonicalBag
        /\ players = <<1>>
        /\ cards = [u \in Users |-> IF u = 1 THEN hand ELSE <<>>]
        /\ deck = dk
        /\ discarded = CanonicalBag (-) (SeqToBag(hand) (+) SeqToBag(dk))
        /\ game_started = TRUE
        /\ current_player_index = 0
        /\ rounds = DeckSize + 1
        /\ num_cards = 2
        /\ total_rounds = DeckSize + 1
        /\ rounds_completed = DeckSize - 1 - Len(dk) + (IF Len(hand) = 1 THEN 1 ELSE 0)
        /\ first_turn = FALSE
        /\ solo_game = TRUE
        /\ current_message = 1
        /\ views = {}
        /\ nviews = 0
        /\ viewsLeft = MaxViewsPlayer
        /\ rng = ShuffleKeys
        /\ picks = MaxPickLate
        /\ showdowns = 0
        /\ result = NoResult
        /\ end_calls = 0
        /\ turn_player = 1
        /\ returned = "none"
        /\ evaluated = NoEval
        /\ raised = FALSE
        /\ advances = 0
        /\ turnsDone = 0
        /\ doubled = FALSE
        /\ roundTurns = [closed |-> FALSE, turns |-> NoTurns]
        /\ junked = {}
        /\ startN = 1

\* ------------------------------------------------------------ showdown

\* the lists among those that are in ascending order
SortedLists(vs, lo, hi) ==
    {l \in Lists(vs, lo, hi) : \A i \in 1..(Len(l) - 1) : l[i] <= l[i + 1]}

\* the card values of the hands a solo run of the last turn starts with
SoloValues == {-2, -1, 0, 1, 2}

\* the card values of a Full Sabacc
FullSabaccValues == {-MaxCardValue, 0, MaxCardValue}

\* the hand of the player of a solo game, in every order of its cards
SoloHands == Lists(SoloValues, 1, MaxHandSolo) \cup Lists(FullSabaccValues, 5, 5)

\* the card values of the hands a two-player run of the last turn starts with
PairValues == -2..2

\* hands of higher cards and of more cards than PairValues and MaxHandPair give
SpecialHands ==
    {<<2, -2>>, <<3, -3>>, <<5, -5>>, <<1, -1, 2, -2>>, <<2, -2, 3, -3>>, <<0, 0, 1, -1>>,
     <<0, 1, -1, 2, -2>>, <<0, 1, 1, -2>>, <<10, 10, -10, -10, 0>>}

\* the hands of the players of a two-player game
PairHands == SortedLists(PairValues, 1, MaxHandPair) \cup SpecialHands

\* the deck dk without the cards cs, which its shuffle put on top and which were dealt
\* or drawn since
RECURSIVE RestOf(_, _)
RestOf(dk, cs) ==
    IF cs = <<>> THEN dk ELSE RestOf(RemoveFirst(dk, Head(cs)), Tail(cs))

\* A game of one or two players before the last turn of its last round: it was
\* started with one card each, the players drew or stood in their turns and now hold
\* h1 and h2, and the turn message of the last player is open.
InitShowdown ==
    \E ps \in {<<1>>, <<1, 2>>} :
    \E h1 \in (IF Len(ps) = 1 THEN SoloHands ELSE PairHands),
       h2 \in (IF Len(ps) = 1 THEN {<<>>} ELSE PairHands),
       k \in (IF Len(ps) = 1 THEN ShuffleKeys \cup {DeckSize} ELSE ShuffleKeys) :
        LET n == Len(ps)
            R == IF Len(h1) >= Len(h2) THEN Len(h1) ELSE Len(h2)
            done == n * R - 1
        IN  /\ SeqToBag(h1 \o h2) \sqsubseteq CanonicalBag
            /\ players = ps
            /\ cards = [u \in Users |-> IF u = 1 THEN h1
                                        ELSE IF u = 2 /\ n = 2 THEN h2 ELSE <<>>]
            /\ deck = RestOf(Shuffled(k), h1 \o h2)
            /\ discarded = EmptyBag
            /\ game_started = TRUE
            /\ current_player_index = n - 1
            /\ rounds = R
            /\ num_cards = 1
            /\ total_rounds = R
            /\ rounds_completed = R
            /\ first_turn = FALSE
            /\ solo_game = (n = 1)
            /\ current_message = done + 1
            /\ views = {[id |-> 1, kind |-> "turn", player |-> ps[n], tv |-> 1,
                         buttons |-> <<>>, turn |-> done, shown |-> TRUE]}
            /\ nviews = 1
            /\ viewsLeft = 0
            /\ rng = ShuffleKeys \cup {DeckSize}
            /\ picks = MaxPick
            /\ showdowns = 0
            /\ result = NoResult
            /\ end_calls = 0
            /\ turn_player = ps[n]
            /\ returned = "none"
            /\ evaluated = NoEval
            /\ raised = FALSE
            /\ advances = done
            /\ turnsDone = done
            /\ doubled = FALSE
            /\ roundTurns = [closed |-> FALSE, turns |-> NoTurns]
            /\ junked = {}
            /\ startN = n

\* ------------------------------------------------------------ specification

Next ==
    \/ \E u \in Users : Join(u)
    \/ \E u \in Users : Leave(u)
    \/ \E u \in Users : Start(u)
    \/ \E u \in Users : PlayTurn(u)
    \/ \E v \in views, u \in Users : Unauthorized(v, u)
    \/ \E v \in views : Draw(v)
    \/ \E v \in views : Stand(v)
    \/ \E v \in views : Junk(v)
    \/ \E v \in views : TurnTimeout(v)
    \/ \E v \in views : OpenDiscard(v)
    \/ \E v \in views : OpenReplace(v)
    \/ \E v \in views, i \in 1..picks : PressDiscard(v, i)
    \/ \E v \in views, i \in 1..picks : PressReplace(v, i)
    \/ \E v \in views : GoBack(v)
    \/ \E v \in views : SelectTimeout(v)

Spec == Init /\ [][Next]_vars

\* the same program, constructed for a game of one round
SpecOneRound == InitOneRound /\ [][Next]_vars

\* the same program, constructed with a configuration that nearly empties the deck
SpecExhaust == InitExhaust /\ [][Next]_vars

\* the same program late in a long solo game, when the deck is nearly empty
SpecLate == InitPlayer /\ [][Next]_vars

\* the timers of the views: discord.py calls on_timeout of every view that is not
\* stopped within its timeout
Timers ==
    /\ WF_vars(\E v \in views : TurnTimeout(v))
    /\ WF_vars(\E v \in views : SelectTimeout(v))

\* the long solo game with the timers running
SpecLateFair == InitPlayer /\ [][Next]_vars /\ Timers

\* direct calls of the Player methods
NextPlayer ==
    \/ \E p \in Users : CallDraw(p)
    \/ \E p \in Users, card \in CardValues : CallDiscard(p, card)
    \/ \E p \in Users, card \in CardValues : CallReplace(p, card)

\* the Player object of that game, driven by direct calls only
SpecPlayer == InitPlayer /\ [][NextPlayer]_vars

\* the lobby alone: players join and leave, one of them starts the game
NextLobby ==
    \/ \E u \in Users : Join(u)
    \/ \E u \in Users : Leave(u)
    \/ \E u \in Users : Start(u)

SpecDeck == InitDeck /\ [][NextLobby]_vars

\* the users of a crowded lobby who are not in it when the run starts join and leave
NextCrowd ==
    \/ \E u \in (LobbySeated + 1)..LobbyUsers : Join(u)
    \/ \E u \in (LobbySeated + 1)..LobbyUsers : Leave(u)

SpecCrowd == InitCrowd /\ [][NextCrowd]_vars

\* the last turn of a game and the showdown, and direct calls of evaluate_hand
NextShowdown ==
    \/ \E v \in views : Draw(v)
    \/ \E v \in views : Stand(v)
    \/ \E v \in views : Junk(v)
    \/ \E v \in views : TurnTimeout(v)
    \/ \E p \in DOMAIN cards : CallEvaluate(p)

SpecShowdown == InitShowdown /\ [][NextShowdown]_vars

\* ------------------------------------------------------------ properties

\* the session state a handler may change
sessionVars == <<players, cards, deck, current_player_index, rounds_completed>>

\* the start went through: the round counters are set
InProgress == game_started /\ total_rounds > 0

AIsIn(ps) == {i \in DOMAIN ps : IsAI(ps[i])}

\* a Draw, Discard, Replace, Stand or Junk submitted through view v
TurnAction(v) ==
    \/ Draw(v)
    \/ Stand(v)
    \/ Junk(v)
    \/ \E i \in 1..picks : PressDiscard(v, i)
    \/ \E i \in 1..picks : PressReplace(v, i)

\* C1: after the start and before showdown every player in the list holds at
\* least one card.
C1_HandsNonEmpty ==
    (InProgress /\ showdowns = 0) =>
        \A i \in DOMAIN players : Len(cards[players[i]]) >= 1

\* C2: no turn is advanced more than once: every call of proceed_to_next_player or
\* end_game made by a view comes from a view of the turn that is running.
C2_OneAdvancePerTurn == ~doubled

\* C3: a Draw, Discard, Replace, Stand or Junk that changes a hand, the deck, the
\* player list or the turn index comes from the current player, through a view of
\* the running turn.
C3_NoActionOutOfTurn ==
    [][\A v \in views :
          (TurnAction(v) /\ <<players, cards, deck, current_player_index>>'
                              # <<players, cards, deck, current_player_index>>)
              => InTurn(v)]_vars

\* C4: with N >= 2 players, R rounds, no junk and every turn advanced once, the
\* showdown has not come before N*R turns are completed and has come once they are.
C4_TurnsBeforeShowdown ==
    (InProgress /\ startN >= 2 /\ junked = {} /\ ~doubled) =>
        IF end_calls = 0 THEN turnsDone < startN * total_rounds
        ELSE turnsDone = startN * total_rounds /\ showdowns >= 1

C4_Witness ==
    /\ InProgress /\ startN = 3 /\ junked = {} /\ ~doubled
    /\ showdowns = 1 /\ turnsDone = startN * total_rounds

\* C5: once a showdown has been computed no step changes a hand, the deck, the
\* player list or the round counter, and no second showdown is computed.
C5_FinishedForGood ==
    [][showdowns >= 1 =>
          /\ <<players, cards, deck, rounds_completed>>' = <<players, cards, deck, rounds_completed>>
          /\ showdowns' = showdowns]_vars

\* C6: a Junk that leaves fewer than 2 players calls end_game in the same step,
\* posts no new turn message and leaves the round counter and the turn index alone.
C6_JunkEndsShortGame ==
    [][\A v \in views :
          (v.player \in Range(players) /\ Len(players) <= 2 /\ Junk(v))
              => /\ end_calls' = end_calls + 1
                 /\ showdowns' = showdowns + 1
                 /\ current_message' = current_message
                 /\ rounds_completed' = rounds_completed
                 /\ current_player_index' = current_player_index]_vars

C6_Witness ==
    /\ startN = 2 /\ Cardinality(junked) = 1 /\ Len(players) = 1
    /\ showdowns = 1 /\ rounds_completed = 1 /\ turnsDone = 1

\* C7: a showdown that ranks no human player reports no winner.
C7_AllJunkedNoWinner ==
    (showdowns >= 1 /\ Range(result.ranked) \cap Users = {}) =>
        (result.winners = {} /\ result.nobody)

\* C8: a showdown ranks one AI hand when the game started with one player and none
\* otherwise, every AI hand has 2 cards, and no turn message names an AI.
C8_SoloAIOnly ==
    /\ showdowns >= 1 =>
          Cardinality(AIsIn(result.ranked)) = (IF startN = 1 THEN 1 ELSE 0)
    /\ \A p \in DOMAIN cards : IsAI(p) => Len(cards[p]) = LandoCards
    /\ ~IsAI(turn_player)

\* C9: a junked player is not in the player list, is not the current player, changes
\* no hand and no deck through any view, and is not ranked by a showdown.
C9_JunkedIsOut ==
    [][/\ \A u \in junked : u \notin Range(players) /\ ~IsCurrent(u)
       /\ \A v \in views :
             (v.player \in junked /\ TurnAction(v)) => (cards' = cards /\ deck' = deck)
       /\ showdowns' > showdowns =>
             \A u \in junked' : u \notin Range(result'.ranked) \cup result'.winners]_vars

\* C10: a refused operation changes nothing of the session: a Draw or Replace on an
\* empty deck, a Discard on a one-card hand, a refused Join, Leave or Start, a
\* button pressed by somebody else.
C10_RefusedChangesNothing ==
    [][/\ \A v \in views :
             ((Draw(v) \/ \E i \in 1..picks : PressReplace(v, i)) /\ deck = <<>>)
                 => UNCHANGED sessionVars
       /\ \A v \in views :
             ((OpenDiscard(v) \/ \E i \in 1..picks : PressDiscard(v, i))
                  /\ Len(cards[v.player]) <= 1)
                 => UNCHANGED sessionVars
       /\ \A u \in Users :
             (Join(u) /\ (game_started \/ u \in Range(players) \/ Len(players) >= MaxPlayers))
                 => UNCHANGED sessionVars
       /\ \A u \in Users :
             ((Leave(u) \/ Start(u)) /\ (game_started \/ u \notin Range(players)))
                 => UNCHANGED sessionVars
       /\ \A u \in Users : (PlayTurn(u) /\ ~IsCurrent(u)) => UNCHANGED sessionVars
       /\ \A v \in views, u \in Users : Unauthorized(v, u) => UNCHANGED sessionVars]_vars

\* C11: a Discard on a hand of exactly one card fails and leaves the hand and the
\* turn alone, through Player.discard_card (it returns False) and through the
\* Discard turn action; a Discard on a hand of 2 or more cards removes exactly one
\* card of that hand.
C11_DiscardRule ==
    [][/\ \A v \in views :
             ((OpenDiscard(v) \/ \E i \in 1..picks : PressDiscard(v, i))
                  /\ Len(cards[v.player]) = 1)
                 => UNCHANGED <<cards, current_player_index, rounds_completed, advances>>
       /\ \A v \in views, i \in 1..picks :
             (PressDiscard(v, i) /\ Len(cards[v.player]) >= 2)
                 => Len(cards'[v.player]) = Len(cards[v.player]) - 1
       /\ \A p \in Range(players), card \in CardValues :
             (CallDiscard(p, card) /\ Len(cards[p]) = 1)
                 => (cards' = cards /\ returned' = "False")
       /\ \A p \in Range(players), card \in CardValues :
             (CallDiscard(p, card) /\ Len(cards[p]) >= 2 /\ card \in Range(cards[p]))
                 => Len(cards'[p]) = Len(cards[p]) - 1]_vars

\* C12: a Replace that changes a hand removes exactly one card of it and appends
\* the top card of the deck, so the hand keeps its size and the deck loses that one
\* card (a showdown in the same step may deal more of it to the AI); a Replace is
\* offered on a one-card hand; no Replace leaves the hand one card short.
C12_ReplaceAtomic ==
    [][/\ \A v \in views, i \in 1..picks :
             (PressReplace(v, i) /\ cards' # cards) =>
                 /\ deck # <<>>
                 /\ \E k \in 1..Len(cards[v.player]) :
                       cards'[v.player] = Append(RemoveAt(cards[v.player], k), deck[Len(deck)])
                 /\ Len(deck') = Len(deck) - 1 \/ showdowns' > showdowns
       /\ \A v \in views :
             (OpenReplace(v) /\ Len(cards[v.player]) = 1) =>
                 \E w \in views' : w.kind = "replace" /\ w.tv = v.id
       /\ \A p \in Range(players), card \in CardValues :
             (CallReplace(p, card) /\ cards' # cards) =>
                 /\ returned' = "True"
                 /\ Len(cards'[p]) = Len(cards[p])
                 /\ Len(deck') = Len(deck) - 1]_vars

\* three copies of each of +1..+10 and of -1..-10, two zeros, 62 cards in all
ThreeOfEachTwoZeros(dk) ==
    /\ Len(dk) = 62
    /\ \A c \in 1..10 : Count(dk, c) = 3 /\ Count(dk, -c) = 3
    /\ Count(dk, 0) = 2

\* C13: every deck generate_deck may return is a permutation of the canonical 62
\* cards (three copies of each of +1..+10 and -1..-10, two zeros), and so are the
\* deck and the hands together once start_game_button has dealt from it.
C13_DeckIsCanonical ==
    /\ \A dk \in generate_deck(rng) : ThreeOfEachTwoZeros(dk)
    /\ (game_started /\ turnsDone = 0) => ThreeOfEachTwoZeros(deck \o Held)

C13_Witness ==
    /\ game_started /\ startN = 3 /\ Len(deck) = DeckSize - 3 * num_cards
    /\ Cardinality(rng) > 30
    /\ deck # SubSeq(CanonicalDeck, 1, Len(deck))

\* the deck, the hands and the cards discarded or replaced away are the 62 cards
Conserved == SeqToBag(deck \o Held) (+) discarded = CanonicalBag

\* C14: after the start the deck, the cards in the hands (those of junked players
\* and of the AI included) and the cards discarded or replaced away are together
\* the canonical 62 cards, so that every card a hand takes is one card less in the
\* deck; the deck never gains a card: what is left of it is what was at its bottom.
C14_CardsConserved ==
    /\ [](game_started => Conserved)
    /\ [][game_started =>
             /\ Len(deck') <= Len(deck)
             /\ deck' = SubSeq(deck, 1, Len(deck'))]_vars

C14_Witness ==
    /\ game_started /\ Conserved
    /\ junked # {} /\ BagCardinality(discarded) = 1
    /\ Len(deck) = DeckSize - startN * num_cards - 1

\* two cards of the same absolute value
SameAbs(a, b) == a = b \/ a = -b

\* a direct call of evaluate_hand returned a ranking key
Evaluated == evaluated.type \notin {"none", "ValueError"}

\* the categories of a hand in priority order, as positions of the cards
Category(h) ==
    LET pos == DOMAIN h
    IN  IF SeqSum(h) # 0 THEN 10
        ELSE IF Len(h) = 2 /\ h[1] = 0 /\ h[2] = 0 THEN 1
        ELSE IF /\ Len(h) = 5
                /\ \E z \in pos : h[z] = 0 /\ \A i \in pos \ {z} : h[i] \in {10, -10}
             THEN 2
        ELSE IF /\ \E z \in pos : h[z] = 0 /\ \A i \in pos \ {z} : h[i] # 0
                /\ \E i, j \in pos : i # j /\ h[i] # 0 /\ SameAbs(h[i], h[j])
             THEN 3
        ELSE IF \E i, j, k, l \in pos :
                    /\ i # j /\ SameAbs(h[i], h[j])
                    /\ k # l /\ SameAbs(h[k], h[l])
                    /\ ~SameAbs(h[i], h[k])
             THEN 4
        ELSE IF \E i, j \in pos : h[i] > 0 /\ h[j] = -h[i] THEN 5
        ELSE 6

\* C15: the rank evaluate_hand returns for a hand (of at least one card) is that of
\* the first category the hand matches, in priority order: 1 Pure Sabacc, 2 Full
\* Sabacc, 3 Yee-Haa, 4 Rule of Two, 5 Sabacc Pair, 6 any other total of 0, 10 a
\* nonzero total.
C15_RankIsFirstCategory ==
    Evaluated => evaluated.key[1] = Category(evaluated.cards)

C15_Witness ==
    /\ Evaluated /\ evaluated.key = <<2>>
    /\ Category(evaluated.cards) = 2 /\ evaluated.cards[1] = 0

\* the key end_game ranks the hand of player p by
Key(p) == evaluate_hand(cards[p]).key

\* a showdown has ranked the hands the players hold now
Ranked == showdowns >= 1 /\ ~result.nobody

\* C16: the winners a showdown names are exactly the remaining players, the AI of a
\* solo game included, whose key no other ranked hand beats; two players who hold
\* the same card values have the same key and win or lose together.
C16_WinnersAreMinimal ==
    Ranked =>
        /\ Range(result.ranked) = Range(players)
        /\ result.winners =
               {p \in Range(players) : \A q \in Range(players) : ~KeyLess(Key(q), Key(p))}
        /\ \A p, q \in Range(players) :
               SeqToBag(cards[p]) = SeqToBag(cards[q]) =>
                   /\ Key(p) = Key(q)
                   /\ p \in result.winners <=> q \in result.winners

C16_Witness ==
    /\ Ranked /\ cards[1] = <<2, -2>> /\ cards[2] = <<2, -2>>
    /\ result.winners = {1, 2}

\* the sum of the positive cards of a hand, and the highest of them (0: none)
PosSum(h) == SeqSum(SelectSeq(h, LAMBDA c : c > 0))

MaxPos(h) == IF \A i \in DOMAIN h : h[i] <= 0 THEN 0
             ELSE CHOOSE m \in Range(h) : \A i \in DOMAIN h : h[i] <= m

\* the place of player p in the ranking of the showdown
Place(p) == CHOOSE i \in DOMAIN result.ranked : result.ranked[i] = p

\* the order of two hands of nonzero total: total closer to zero, then positive
\* total, then more cards, then higher sum of positive cards, then higher positive card
NulrhekBeats(a, b) ==
    LET ta == SeqSum(a)
        tb == SeqSum(b)
        da == IF ta < 0 THEN -ta ELSE ta
        db == IF tb < 0 THEN -tb ELSE tb
    IN  \/ da < db
        \/ da = db /\ ta > 0 /\ tb < 0
        \/ ta = tb /\ Len(a) > Len(b)
        \/ ta = tb /\ Len(a) = Len(b) /\ PosSum(a) > PosSum(b)
        \/ ta = tb /\ Len(a) = Len(b) /\ PosSum(a) = PosSum(b) /\ MaxPos(a) > MaxPos(b)

\* C17: of two ranked hands of nonzero total the one of the smaller |total| is placed
\* first and the other does not win; at equal |total| the positive total, then
\* the hand of more cards, then the higher sum of positive cards, then the higher
\* positive card; two hands that none of these tells apart are placed as equals.
C17_NulrhekOrder ==
    Ranked =>
        \A p, q \in Range(players) :
            (SeqSum(cards[p]) # 0 /\ SeqSum(cards[q]) # 0) =>
                /\ NulrhekBeats(cards[p], cards[q]) =>
                       (Place(p) < Place(q) /\ q \notin result.winners)
                /\ (~NulrhekBeats(cards[p], cards[q]) /\ ~NulrhekBeats(cards[q], cards[p])) =>
                       (p \in result.winners <=> q \in result.winners)

C17_Witness ==
    /\ Ranked /\ cards[1] = <<-1, 0, 2>> /\ cards[2] = <<-1, 1, 1>>
    /\ result.ranked = <<1, 2>> /\ result.winners = {1}

\* C18: a ranked hand whose total is 0 is placed before every ranked hand whose
\* total is not 0, and the holder of the latter does not win, whatever the
\* tie-breakers of the two hands.
C18_ZeroBeatsNonzero ==
    Ranked =>
        \A p, q \in Range(players) :
            (SeqSum(cards[p]) = 0 /\ SeqSum(cards[q]) # 0) =>
                (Place(p) < Place(q) /\ q \notin result.winners)

C18_Witness ==
    /\ Ranked /\ cards[1] = <<1>> /\ cards[2] = <<-2, 1, 1>>
    /\ result.ranked = <<2, 1>> /\ result.winners = {2}

\* the tie-break value of a Yee-Haa (category 3: the lowest absolute value of its
\* nonzero cards), of a Rule of Two or a Sabacc Pair (the lowest absolute value)
TieValue(h) ==
    LET mags == {IF h[i] < 0 THEN -h[i] ELSE h[i] : i \in DOMAIN h}
        of == IF Category(h) = 3 THEN mags \ {0} ELSE mags
    IN  CHOOSE m \in of : \A x \in of : m <= x

\* C19: the key of a Yee-Haa, a Rule of Two or a Sabacc Pair is its rank and its
\* tie-break value (the lowest nonzero absolute value for a Yee-Haa, the lowest
\* absolute value for the other two), and of two ranked hands of the same of these
\* categories the one of the smaller value is placed first and the other does not
\* win; so [3,-3] has key (5, 3) and beats [5,-5].
C19_TieBreakWithinCategory ==
    /\ (Evaluated /\ Category(evaluated.cards) \in {3, 4, 5}) =>
           evaluated.key = <<Category(evaluated.cards), TieValue(evaluated.cards)>>
    /\ Ranked =>
           \A p, q \in Range(players) :
               (/\ Category(cards[p]) \in {3, 4, 5}
                /\ Category(cards[q]) = Category(cards[p])
                /\ TieValue(cards[p]) < TieValue(cards[q])) =>
                   (Place(p) < Place(q) /\ q \notin result.winners)

C19_Witness ==
    /\ Ranked /\ cards[1] = <<5, -5>> /\ cards[2] = <<3, -3>>
    /\ result.ranked = <<2, 1>> /\ result.winners = {2}
    /\ evaluated.cards = <<3, -3>> /\ evaluated.key = <<5, 3>>

\* the cards of h in every order
Reorderings(h) == {[i \in DOMAIN h |-> h[f[i]]] : f \in Permutations(DOMAIN h)}

\* C20: what evaluate_hand returns for a hand (key, hand type and total) is what it
\* returns for the same cards in any other order.
C20_OrderIndependent ==
    Evaluated =>
        \A h \in Reorderings(evaluated.cards) :
            /\ evaluate_hand(h).key = evaluated.key
            /\ evaluate_hand(h).type = evaluated.type
            /\ evaluate_hand(h).total = evaluated.total

C20_Witness ==
    /\ Evaluated /\ evaluated.cards = <<2, -1, 1, -1>>
    /\ evaluated.key = <<10, 1, 0, -4, -3, -2>>
    /\ <<-1, -1, 1, 2>> \in Reorderings(evaluated.cards)

\* the keys of the hands the players hold and of the hand evaluate_hand was last
\* called with
KeysHeld ==
    {Key(p) : p \in Range(players)} \cup (IF Evaluated THEN {evaluated.key} ELSE {})

\* exactly one of a < b, b < a, a = b
OneOfThree(a, b) ==
    /\ KeyLess(a, b) \/ KeyLess(b, a) \/ a = b
    /\ ~(KeyLess(a, b) /\ KeyLess(b, a))
    /\ ~(KeyLess(a, b) /\ a = b)
    /\ ~(KeyLess(b, a) /\ a = b)

\* C21: the keys of non-empty hands are totally preordered by the comparison the
\* sort of end_game uses: of two keys exactly one of <, >, = holds, two keys of the
\* same rank have the same number of tie-breakers, and < is transitive.
C21_KeysTotalPreorder ==
    \A a \in KeysHeld : \A b \in KeysHeld :
        /\ OneOfThree(a, b)
        /\ a[1] = b[1] => Len(a) = Len(b)
        /\ \A c \in KeysHeld :
               /\ (KeyLess(a, b) /\ KeyLess(b, c)) => KeyLess(a, c)
               /\ (KeyLess(c, a) /\ KeyLess(a, b)) => KeyLess(c, b)
               /\ (KeyLess(b, c) /\ KeyLess(c, a)) => KeyLess(b, a)

C21_Witness ==
    /\ Ranked /\ Evaluated /\ startN = 2 /\ Len(players) = 2
    /\ Key(1)[1] = 10 /\ Key(2)[1] = 10 /\ evaluated.key[1] = 6
    /\ KeyLess(evaluated.key, Key(1)) /\ KeyLess(Key(1), Key(2))
    /\ evaluated.cards # cards[1] /\ evaluated.cards # cards[2]

\* C22: in the lobby the player list never holds a user twice nor more than 8
\* players, and a Join by a member or into a list of 8 leaves the list as it was.
C22_LobbyListBounded ==
    /\ [](/\ Len(players) <= 8
          /\ \A i, j \in DOMAIN players : players[i] = players[j] => i = j)
    /\ [][\A u \in 1..LobbyUsers :
              (Join(u) /\ (u \in Range(players) \/ Len(players) >= 8))
                  => players' = players]_vars

C22_Witness ==
    /\ ~game_started /\ Len(players) = 8
    /\ \E u \in 1..LobbyUsers : u \notin Range(players)

\* the users in the player list
HumanPlayers == {p \in Range(players) : ~IsAI(p)}

\* C23: once the game has started a Join or a Leave leaves the player list as it
\* was, no user enters the list, a user leaves it only through a Junk, and the
\* users who stay keep their relative order.
C23_PlayersFixedAfterStart ==
    [][(game_started /\ players' # players) =>
          /\ \A u \in Users : ~(Join(u) \/ Leave(u))
          /\ HumanPlayers' \subseteq HumanPlayers
          /\ HumanPlayers' # HumanPlayers => \E v \in views : Junk(v)
          /\ \A p, q \in HumanPlayers' :
                 IndexOf(players, p) < IndexOf(players, q)
                     <=> IndexOf(players', p) < IndexOf(players', q)]_vars

C23_Witness ==
    /\ game_started /\ startN = 3 /\ Cardinality(junked) = 1
    /\ Len(players) = 2 /\ showdowns = 0
    /\ players[1] \in Users /\ players[2] \in Users

\* C24: Start takes effect only in the lobby, with at least one player and at the request
\* of a member of the player list; right after a successful start with N players every
\* hand has num_cards cards, the deck has 62 - N * num_cards cards, rounds_completed is 1,
\* total_rounds is the configured rounds and the turn is that of the player at index 0 of
\* the shuffled order.
C24_StartDeals ==
    [][(~game_started /\ game_started') =>
          /\ Len(players) >= 1
          /\ \A u \in Users : Start(u) => u \in Range(players)
          /\ \E u \in Range(players) : Start(u)
          /\ ~raised' =>
                 /\ Len(players') = Len(players)
                 /\ Range(players') = Range(players)
                 /\ \A p \in Range(players') : Len(cards'[p]) = num_cards
                 /\ Len(deck') = 62 - Len(players) * num_cards
                 /\ rounds_completed' = 1
                 /\ total_rounds' = rounds
                 /\ current_player_index' = 0
                 /\ turn_player' = players'[1]
                 /\ current_message' = current_message + 1]_vars

C24_Witness ==
    /\ game_started /\ ~raised /\ advances = 0 /\ views = {}
    /\ startN = 3 /\ Len(players) = 3
    /\ \A p \in Range(players) : Len(cards[p]) = num_cards
    /\ Len(deck) = 62 - 3 * num_cards
    /\ rounds_completed = 1 /\ total_rounds = rounds /\ rounds = 2
    /\ current_player_index = 0 /\ turn_player = players[1]

\* a Stand, or the timeout of a turn view or of a card selection
StandOrTimeout ==
    /\ advances' = advances + 1
    /\ \E v \in views : Stand(v) \/ TurnTimeout(v) \/ SelectTimeout(v)

\* C25 as stated: after a Stand or a timeout every hand and the deck are what they were
\* before.
C25_StandChangesNoCard ==
    [][StandOrTimeout => (cards' = cards /\ deck' = deck)]_vars

\* C25, amended: a Stand or a timeout changes no player's hand, discards nothing, and
\* leaves the deck and the player list alone unless its advance ends a solo game, where
\* end_game deals the AI's cards off the end of the deck and appends the AI; the game
\* stays started, with the same total_rounds and the same junked players.
C25_StandChangesNoHand ==
    [][StandOrTimeout =>
          /\ \A u \in Users : cards'[u] = cards[u]
          /\ discarded' = discarded
          /\ game_started' = game_started /\ total_rounds' = total_rounds
          /\ solo_game' = solo_game /\ junked' = junked
          /\ IF solo_game /\ (end_calls' > end_calls \/ raised')
                THEN /\ Len(deck') <= Len(deck) /\ Len(deck) - Len(deck') <= LandoCards
                     /\ deck' = SubSeq(deck, 1, Len(deck'))
                     /\ \A i \in DOMAIN players : i \in DOMAIN players' /\ players'[i] = players[i]
                     /\ \A i \in DOMAIN players' \ DOMAIN players : IsAI(players'[i])
                ELSE deck' = deck /\ players' = players /\ cards' = cards]_vars

C25_Witness ==
    /\ game_started /\ ~raised /\ showdowns = 0 /\ advances = 2 /\ junked = {}
    /\ startN = 2 /\ Len(players) = 2 /\ rounds = 2 /\ rounds_completed = 2
    /\ discarded = EmptyBag
    /\ \A p \in Range(players) : Len(cards[p]) = num_cards
    /\ Len(deck) = 62 - 2 * num_cards

\* the rounds the game was started for are not over
RoundsLeft == rounds_completed <= total_rounds

\* C26: every started game eventually computes a showdown, provided each started turn
\* is ended by an action or by its timeout: either a showdown is computed, or from
\* some point on no turn is open although rounds are left (the player whose turn it
\* is never opens it).
C26_EventuallyShowdown ==
    <>(showdowns > 0) \/ <>[](views = {} /\ RoundsLeft)

\* this step removes a player by Junk
JunkStep == junked' # junked

\* the length of the player list when this step calls proceed_to_next_player
ListLen == IF JunkStep THEN Len(players) - 1 ELSE Len(players)

\* C27: rounds_completed changes only inside an advance of the turn, by exactly +1,
\* exactly when the new turn index is 0 and the advance is not the one that starts the
\* first turn; an advance calls end_game exactly when that increment makes
\* rounds_completed exceed total_rounds, and then no new turn message is posted.
C27_RoundCounter ==
    [][/\ (~game_started /\ game_started' /\ ~raised') =>
             rounds_completed' = 1 /\ current_player_index' = 0 /\ end_calls' = end_calls
       /\ (game_started /\ advances' = advances) => rounds_completed' = rounds_completed
       /\ (game_started /\ advances' # advances) =>
             IF JunkStep /\ ListLen < 2
                THEN \* Junk calls end_game itself: no advance
                     rounds_completed' = rounds_completed
             ELSE IF ListLen = 0
                THEN rounds_completed' = rounds_completed /\ end_calls' = end_calls
             ELSE LET idx == (current_player_index + 1) % ListLen
                      wrap == idx = 0 /\ ~first_turn
                      over == wrap /\ rounds_completed + 1 > total_rounds
                  IN  /\ current_player_index' = idx
                      /\ rounds_completed' = IF wrap THEN rounds_completed + 1
                                             ELSE rounds_completed
                      /\ end_calls' = IF over THEN end_calls + 1 ELSE end_calls
                      /\ current_message' = IF over THEN current_message
                                            ELSE current_message + 1
                      /\ over => turn_player' = turn_player
                      /\ ~over => turn_player' = players'[idx + 1]]_vars

C27_Witness ==
    /\ game_started /\ ~raised /\ ~doubled /\ startN = 2 /\ junked = {} /\ total_rounds = 1
    /\ rounds_completed = 2 /\ current_player_index = 0 /\ advances = 2
    /\ end_calls = 1 /\ showdowns = 1 /\ current_message = 2

\* the player this step removes by Junk is the one whose turn it is
CurrentJunks == JunkStep /\ \E p \in junked' \ junked : IsCurrent(p)

\* C28: after a Junk of the current player that leaves 2 or more players, the next turn
\* is that of the player who followed the junking player in the turn order; when the
\* junking player was last, that is the first player and a round is counted (which may
\* end the game instead).
C28_JunkKeepsOrder ==
    [][(game_started /\ showdowns = 0 /\ CurrentJunks /\ ListLen >= 2) =>
          IF current_player_index + 1 < Len(players)
             THEN /\ turn_player' = players[current_player_index + 2]
                  /\ rounds_completed' = rounds_completed
             ELSE /\ rounds_completed' = rounds_completed + 1
                  /\ \/ turn_player' = players[1]
                     \/ rounds_completed' > total_rounds /\ showdowns' = 1]_vars

\* C29: within one round no player completes more than one turn, and when the round
\* counter is incremented every player in the game has completed exactly one turn of
\* the round that just ended, also when other players junked during it (stated for the
\* runs in which every turn was advanced once, up to the first showdown).
C29_OneTurnPerRound ==
    (game_started /\ ~doubled /\ ~raised /\ advances = turnsDone) =>
        /\ \A u \in Users : roundTurns.turns[u] <= 1
        /\ roundTurns.closed => \A p \in HumanPlayers : roundTurns.turns[p] = 1

\* C30: whenever a turn message with the Play Turn button exists, the current turn
\* index is at least 0 and less than the number of players in the list.
C30_IndexInRange ==
    current_message > 0 => (0 <= current_player_index /\ current_player_index < Len(players))

\* this step is a press of card button i of selection view v that reaches pop(card_index)
Pops(v, i) ==
    \/ PressDiscard(v, i) /\ Len(cards[v.player]) >= 2
    \/ PressReplace(v, i)

\* C31: a Discard or Replace removes the card the player selected: the position a card
\* button removes exists in the hand, and the card it takes out has the value the
\* button has shown since the selection view was created, whatever views were opened
\* and whatever actions were taken before the press.
C31_RemovesSelectedCard ==
    [][(cards' # cards \/ raised' # raised) =>
          \A v \in views, i \in 1..picks :
              Pops(v, i) => /\ i <= Len(cards[v.player])
                            /\ cards[v.player][i] = v.buttons[i]]_vars

====
